---- MODULE Spec2Model ----
(***************************************************************************)
(* papirus_status.py: a status monitor that samples host telemetry,        *)
(* renders it as a bitmap and pushes it to a PaPiRus e-paper display every *)
(* ten seconds.  The module models main(), the collector                   *)
(* get_system_status() with its sub-queries, the renderer                  *)
(* render_status_to_image() and the display shim display_status().         *)
(*                                                                         *)
(* Text is modelled as a sequence of tokens (strings).  The separator ":"  *)
(* and the blank " " are always tokens of their own, so that `":" in line`,*)
(* str.split(":", 1) and str.strip() are computed on the sequence.         *)
(***************************************************************************)
EXTENDS Integers, Sequences, FiniteSets, TLC

VARIABLES
    pc,               \* position of the single thread in main()
    exc,              \* the exception that left main() uncaught, or "none"
    interrupted,      \* a KeyboardInterrupt has been raised in the thread
    probes,           \* calls of i2cdetect made by is_papirus_connected
    probe_out,        \* history: what the last call of i2cdetect answered
    opened,           \* Papirus() handles constructed
    height,           \* epaper.height as read at line 203 (0 before)
    printed,          \* what main() has printed, in order
    cycle,            \* calls of display_status started
    samples,          \* reports returned by get_system_status
    bitmaps,          \* calls of epaper.display
    commits,          \* calls of epaper.update
    sleeps,           \* calls of time.sleep(10) started
    loc,              \* the locals of get_system_status and of the sub-query
                      \* it is in (a record; NoFrame while no call is live)
    prev_net,         \* history: counters and values of the previous report
    status,           \* the report handed to the renderer
    font_size,        \* parameter of render_status_to_image
    image             \* the draw operations issued on the surface, in order

vars == << pc, exc, interrupted, probes, probe_out, opened, height, printed, cycle, samples,
           bitmaps, commits, sleeps, loc, prev_net, status, font_size, image >>

(***************************************************************************)
(* Bounds of the model.                                                    *)
(***************************************************************************)
MaxCycles == 2      \* refresh cycles a behaviour may start
MaxLines == 2       \* lines of a report handed directly to the renderer
MaxLen == 2         \* tokens of such a line

(***************************************************************************)
(* Program constants.                                                      *)
(***************************************************************************)
DefaultFontSize == 10
LeftMargin == 5
LinePad == 2
BytesPerMB == 1048576

NoValue == "unset"          \* a string local that holds nothing
UnsetNum == 0 - 1           \* a numeric local that holds nothing
SEP == ":"
BLANK == " "

(***************************************************************************)
(* Exceptions.  KeyboardInterrupt derives from BaseException only; every   *)
(* other exception of the model derives from Exception.                    *)
(***************************************************************************)
Errors == {"FileNotFoundError", "CalledProcessError", "PermissionError",
           "ValueError", "UnicodeDecodeError", "KeyError", "OSError"}
KeyboardInterrupt == "KeyboardInterrupt"

IsException(e) == e \in Errors

(***************************************************************************)
(* Numbers.  round(n / d, k) and the float formats round the exact value   *)
(* half to even; n / 2^20 is exact in a double for every counter below     *)
(* 2^53, so the integer computation below is the one the code performs.    *)
(***************************************************************************)
RoundHalfEven(n, d) ==
    LET q == n \div d
        r == n % d
    IN  IF 2 * r < d THEN q
        ELSE IF 2 * r > d THEN q + 1
        ELSE IF q % 2 = 0 THEN q ELSE q + 1

\* round(bytes / (1024 * 1024), k) in units of 1 / scale MB, scale = 10^k:
\* the whole megabytes contribute an even multiple of scale, so rounding the
\* remainder half to even rounds the quotient half to even
RoundMB(bytes, scale) ==
    (bytes \div BytesPerMB) * scale + RoundHalfEven((bytes % BytesPerMB) * scale, BytesPerMB)

\* round(bytes / (1024 * 1024), 2), in hundredths of MB
ToMB2(bytes) == RoundMB(bytes, 100)

\* round(bytes / (1024 * 1024), 1), in tenths of MB
ToMB1(bytes) == RoundMB(bytes, 10)

\* str() of the float h / 100 that round(_, 2) returned: "0.12", "1.5", "0.0"
Repr2(h) ==
    ToString(h \div 100) \o "." \o
        (IF h % 10 = 0 THEN ToString((h % 100) \div 10)
         ELSE ToString((h % 100) \div 10) \o ToString(h % 10))

\* str() of the float t / 10 that round(_, 1) returned
Repr1(t) == ToString(t \div 10) \o "." \o ToString(t % 10)

\* f"{x:.2f}" of a load average given in hundredths
Fixed2(h) == ToString(h \div 100) \o "." \o ToString((h % 100) \div 10) \o ToString(h % 10)

\* f"{millideg / 1000.0:.1f}" followed by the unit suffix of line 56
DegreeSuffix == "*C"
FormatTemp(millideg) == Repr1(RoundHalfEven(millideg, 100)) \o DegreeSuffix

(***************************************************************************)
(* Text as token sequences.                                                *)
(***************************************************************************)
HasSep(line) == \E k \in 1..Len(line) : line[k] = SEP

FirstSep(line) ==
    CHOOSE k \in 1..Len(line) : line[k] = SEP /\ \A j \in 1..(k - 1) : line[j] # SEP

\* line.split(":", 1) for a line that holds a separator
SplitLabel(line) == SubSeq(line, 1, FirstSep(line) - 1)
SplitValue(line) == SubSeq(line, FirstSep(line) + 1, Len(line))

RECURSIVE LStrip(_)
LStrip(s) == IF s # <<>> /\ Head(s) = BLANK THEN LStrip(Tail(s)) ELSE s

RECURSIVE RStrip(_)
RStrip(s) ==
    IF s # <<>> /\ s[Len(s)] = BLANK THEN RStrip(SubSeq(s, 1, Len(s) - 1)) ELSE s

\* str.strip()
Strip(s) == RStrip(LStrip(s))

(***************************************************************************)
(* What the environment can answer to each query.                          *)
(***************************************************************************)
\* i2cdetect -y 1: the set of bus addresses its table reports, or an error
PapirusAddress == "48"
ProbeOutcomes ==
    { [kind |-> "output", found |-> f, err |-> "none"] :
          f \in {{}, {"14"}, {"48"}, {"14", "48"}} }
    \cup { [kind |-> "raise", found |-> {}, err |-> e] :
          e \in {"FileNotFoundError", "CalledProcessError", "PermissionError"} }

\* epaper.height of the panels the PaPiRus driver supports
\* (1.44" 128x96, 1.9" 144x128, 2.0" 200x96, 2.6" 232x128, 2.7" 264x176)
PanelHeights == {96, 128, 176}

CpuLoads == {"12.5"}

\* pijuice.status.GetChargeLevel(): a dict with 'data', a dict without it
\* (e.g. {'error': 'COMMUNICATION_ERROR'}), or an exception of the bus
ChargeResponses ==
    { [kind |-> "data", data |-> "87", err |-> "none"],
      [kind |-> "nodata", data |-> NoValue, err |-> "none"],
      [kind |-> "raise", data |-> NoValue, err |-> "OSError"] }

\* pijuice.status.GetStatus(): likewise; 'data' holds 'powerInput'
PowerInputs == {"NOT_PRESENT", "PRESENT", "BAD", "WEAK"}
StatusResponses ==
    { [kind |-> "data", data |-> p, err |-> "none"] : p \in PowerInputs }
    \cup { [kind |-> "nodata", data |-> NoValue, err |-> "none"],
           [kind |-> "raise", data |-> NoValue, err |-> "OSError"] }

\* psutil.virtual_memory(): (used, total) in bytes
MemorySamples == { <<402653184, 1073741824>> }

\* /sys/class/thermal/thermal_zone0/temp: its content, or the error of open()
\* (no reading of the model lies on a rounding tie of the one-decimal format)
TempOutcomes ==
    { [kind |-> "int", millideg |-> 48312, err |-> "none"],
      [kind |-> "garbage", millideg |-> 0, err |-> "none"],
      [kind |-> "raise", millideg |-> 0, err |-> "FileNotFoundError"],
      [kind |-> "raise", millideg |-> 0, err |-> "PermissionError"] }

\* psutil.getloadavg(), in hundredths
LoadSamples == { <<15, 10, 5>> }

\* psutil.net_if_addrs(): interfaces in iteration order, each with its
\* addresses in order
Addr(f, a) == [family |-> f, address |-> a]
Iface(n, l) == [name |-> n, addr_list |-> l]
LoopbackAddresses == {"127.0.0.1", "127.0.0.2", "::1"}
Interfaces ==
    { Iface("lo", << Addr("AF_INET", "127.0.0.1"), Addr("AF_INET6", "::1") >>),
      Iface("lo", << Addr("AF_INET", "127.0.0.1"), Addr("AF_INET", "127.0.0.2") >>),
      Iface("eth0", << Addr("AF_PACKET", "b8:27:eb:00:00:01"),
                       Addr("AF_INET", "192.168.1.5") >>),
      Iface("eth0", << Addr("AF_INET6", "fe80::1") >>),
      Iface("tailscale0", << Addr("AF_INET6", "fd7a::1"),
                             Addr("AF_INET", "100.64.0.1") >>),
      Iface("tailscale0", << >>) }
NetConfigs ==
    { <<>> } \cup { <<i>> : i \in Interfaces }
    \cup { c \in { <<i, j>> : i \in Interfaces, j \in Interfaces } :
               c[1].name # c[2].name }

\* psutil.net_io_counters(): cumulative (bytes_sent, bytes_recv).  0.125 MB
\* and 0.375 MB lie on a rounding tie of the two-decimal format; 5242 and
\* 5243 bytes lie on either side of 0.005 MB.
NetSamples ==
    { [bytes_sent |-> 131072, bytes_recv |-> 5242],
      [bytes_sent |-> 131072, bytes_recv |-> 393216],
      [bytes_sent |-> 393216, bytes_recv |-> 5243] }

\* iwgetid -r: its decoded, stripped output, or an error
SsidOutcomes ==
    { [kind |-> "output", text |-> "home", err |-> "none"],
      [kind |-> "output", text |-> "", err |-> "none"],
      [kind |-> "raise", text |-> "", err |-> "FileNotFoundError"],
      [kind |-> "raise", text |-> "", err |-> "CalledProcessError"],
      [kind |-> "raise", text |-> "", err |-> "UnicodeDecodeError"] }

(***************************************************************************)
(* is_papirus_connected (lines 10-19)                                      *)
(***************************************************************************)
\* (a probe that accepts any device on the bus)
ReportsAnyDevice(out) == out.found # {}

\* "48" in result
ReportsPapirus(out) == PapirusAddress \in out.found

\* except (FileNotFoundError, subprocess.CalledProcessError)
ProbeCatches(e) == e \in {"FileNotFoundError", "CalledProcessError"}

(***************************************************************************)
(* get_battery_status (lines 25-47)                                        *)
(***************************************************************************)
\* (an interpretation without the final else)
InterpretPresentOnly(charging_status) ==
    IF charging_status = "NOT_PRESENT" THEN "Discharging" ELSE "Charging"

\* the if / elif / else of lines 37-42
InterpretPowerInput(charging_status) ==
    IF charging_status = "NOT_PRESENT" THEN "Discharging"
    ELSE IF charging_status = "PRESENT" THEN "Charging"
    ELSE "Unknown"

\* (a bare except, which catches BaseException too)
CatchesAll(e) == TRUE

\* except Exception
BatteryCatches(e) == IsException(e)

\* return "N/A", "Error"
BatteryFallback == << "N/A", "Error" >>

\* what evaluating response['data'] raises, or "none"
DataError(resp) ==
    IF resp.kind = "raise" THEN resp.err
    ELSE IF resp.kind = "nodata" THEN "KeyError"
    ELSE "none"

(***************************************************************************)
(* get_cpu_temperature (lines 49-58)                                       *)
(***************************************************************************)
\* except FileNotFoundError
TempCatches(e) == e = "FileNotFoundError"

\* what open() / int() raise on the outcome, or "none"
TempError(o) ==
    IF o.kind = "raise" THEN o.err
    ELSE IF o.kind = "garbage" THEN "ValueError"
    ELSE "none"

(***************************************************************************)
(* get_ip_address (lines 60-70)                                            *)
(***************************************************************************)
\* the condition of line 68
IsCandidate(addr) == addr.family = "AF_INET" /\ addr.address # "127.0.0.1"

\* the inner loop: the first candidate of one address list, or NoValue
RECURSIVE ScanAddrList(_)
ScanAddrList(addr_list) ==
    IF addr_list = <<>> THEN NoValue
    ELSE IF IsCandidate(Head(addr_list)) THEN Head(addr_list).address
    ELSE ScanAddrList(Tail(addr_list))

\* the outer loop and the final return "N/A"
RECURSIVE GetIpAddress(_)
GetIpAddress(ifaces) ==
    IF ifaces = <<>> THEN "N/A"
    ELSE IF ScanAddrList(Head(ifaces).addr_list) # NoValue
         THEN ScanAddrList(Head(ifaces).addr_list)
    ELSE GetIpAddress(Tail(ifaces))

(***************************************************************************)
(* get_ssid (lines 81-91)                                                  *)
(***************************************************************************)
\* except FileNotFoundError / except subprocess.CalledProcessError
SsidCatches(e) == e \in {"FileNotFoundError", "CalledProcessError"}

\* return ssid if ssid else "N/A"
SsidOf(o) == IF o.text # "" THEN o.text ELSE "N/A"

(***************************************************************************)
(* is_tailscale_up (lines 93-102)                                          *)
(***************************************************************************)
RECURSIVE FirstIPv4(_)
FirstIPv4(addr_list) ==
    IF addr_list = <<>> THEN NoValue
    ELSE IF Head(addr_list).family = "AF_INET" THEN Head(addr_list).address
    ELSE FirstIPv4(Tail(addr_list))

IsTailscaleUp(ifaces) ==
    LET ts == SelectSeq(ifaces, LAMBDA i : i.name = "tailscale0")
    IN  IF ts # <<>> /\ FirstIPv4(ts[1].addr_list) # NoValue
        THEN FirstIPv4(ts[1].addr_list)
        ELSE "Down"

(***************************************************************************)
(* get_system_status (lines 104-154): the report it returns                *)
(***************************************************************************)
\* battery_in is history: the answers get_battery_status received in this call
NoFrame ==
    [ cpu_load |-> NoValue, battery_in |-> <<>>, charge_level |-> NoValue,
      battery |-> <<>>,
      memory |-> <<>>, cpu_temp |-> NoValue, load_avg_str |-> NoValue,
      addrs |-> <<>>, ip_address |-> NoValue, net_io |-> <<>>,
      sent |-> UnsetNum, recv |-> UnsetNum, ssid |-> NoValue,
      tailscale_status |-> NoValue ]

\* (a report whose network counters take two lines)
StatusLinesSplitNet(f) ==
    << << "CPU", SEP, BLANK, f.cpu_load \o "%,", BLANK, "Battery", SEP, BLANK,
          f.battery[1] \o "%,", BLANK, f.battery[2] >>,
       << "Memory", SEP, BLANK, Repr1(f.memory[1]) \o "/" \o Repr1(f.memory[2]),
          BLANK, "MB" >>,
       << "CPU", BLANK, "Temp", SEP, BLANK, f.cpu_temp >>,
       << "Load", BLANK, "Avg", SEP, BLANK, f.load_avg_str >>,
       << "IP", BLANK, "Addr", SEP, BLANK, f.ip_address >>,
       << "Net", SEP, BLANK, "Sent", SEP, BLANK, Repr2(f.sent), BLANK, "MB" >>,
       << "Net", SEP, BLANK, "Recv", SEP, BLANK, Repr2(f.recv), BLANK, "MB" >>,
       << "Wi-Fi", SEP, BLANK, f.ssid >>,
       << "Tailscale", SEP, BLANK, f.tailscale_status >> >>

\* the list of lines 143-154, built from the locals f
StatusLines(f) ==
    << << "CPU", SEP, BLANK, f.cpu_load \o "%,", BLANK, "Battery", SEP, BLANK,
          f.battery[1] \o "%,", BLANK, f.battery[2] >>,
       << "Memory", SEP, BLANK, Repr1(f.memory[1]) \o "/" \o Repr1(f.memory[2]),
          BLANK, "MB" >>,
       << "CPU", BLANK, "Temp", SEP, BLANK, f.cpu_temp >>,
       << "Load", BLANK, "Avg", SEP, BLANK, f.load_avg_str >>,
       << "IP", BLANK, "Addr", SEP, BLANK, f.ip_address >>,
       << "Net", SEP, BLANK, "Sent", SEP, BLANK, Repr2(f.sent), BLANK, "MB,", BLANK,
          "Recv", SEP, BLANK, Repr2(f.recv), BLANK, "MB" >>,
       << "Wi-Fi", SEP, BLANK, f.ssid >>,
       << "Tailscale", SEP, BLANK, f.tailscale_status >> >>

(***************************************************************************)
(* render_status_to_image (lines 157-183)                                  *)
(*                                                                         *)
(* A draw operation is draw.text((x, y), text, font).  x is x0 pixels plus *)
(* the rendered width (bold_font.getbbox(...)[2]) of the text right_of,    *)
(* which is empty when nothing is added.  line is the 0-based index of the *)
(* report line the loop is at.  The surface width plays no part in where   *)
(* the text is drawn and is left out.                                      *)
(***************************************************************************)
DrawOp(x0, right_of, y, text, font, i) ==
    [ x0 |-> x0, right_of |-> right_of, y |-> y, text |-> text, font |-> font,
      line |-> i ]

\* the body of the loop, lines 172-181
DrawLine(line, y, i) ==
    IF HasSep(line)
    THEN LET label_with_colon == SplitLabel(line) \o << SEP, BLANK >>
         IN  << DrawOp(LeftMargin, <<>>, y, label_with_colon, "bold", i),
                DrawOp(LeftMargin, label_with_colon, y, Strip(SplitValue(line)),
                       "regular", i) >>
    ELSE << DrawOp(LeftMargin, <<>>, y, line, "regular", i) >>

\* (a cursor that advances by the font size alone)
NextYNoPad(y, fs) == y + fs

\* y += font_size + 2
NextY(y, fs) == y + fs + LinePad

\* the loop of lines 171-182 from the line at index i on
RECURSIVE RenderFrom(_, _, _, _)
RenderFrom(lines, i, y, fs) ==
    IF i >= Len(lines) THEN <<>>
    ELSE DrawLine(lines[i + 1], y, i) \o RenderFrom(lines, i + 1, NextY(y, fs), fs)

NoImage == [ height |-> 0, draws |-> <<>> ]

\* Image.new("1", (width, height), 255), y = 0, the loop, return image
RenderStatusToImage(lines, h, fs) ==
    [ height |-> h, draws |-> RenderFrom(lines, 0, 0, fs) ]

(***************************************************************************)
(* The program as a state machine.  pc names the call the thread is in;    *)
(* an action is that call completing, normally or by an exception.         *)
(***************************************************************************)
StartupPcs == {"probe", "print_absent", "open"}
BatteryPcs == {"battery_charge", "battery_status"}
CollectorPcs ==
    {"cpu_percent", "battery_charge", "battery_status", "memory", "cpu_temp",
     "loadavg", "ip_call", "ip_scan", "net", "ssid", "tailscale", "build"}
\* the statements inside the try of lines 205-208
LoopPcs == {"loop_top", "render", "display", "update", "sleep"} \cup CollectorPcs
TerminalPcs == {"exited", "done", "crashed"}

NoProbe == [kind |-> "none", found |-> {}, err |-> "none"]

Init ==
    /\ pc = "probe"
    /\ exc = "none"
    /\ interrupted = FALSE
    /\ probes = 0
    /\ probe_out = NoProbe
    /\ opened = 0
    /\ height = 0
    /\ printed = <<>>
    /\ cycle = 0
    /\ samples = 0
    /\ bitmaps = 0
    /\ commits = 0
    /\ sleeps = 0
    /\ loc = NoFrame
    /\ prev_net = [bytes_sent |-> 0, bytes_recv |-> 0, sent |-> 0, recv |-> 0]
    /\ status = <<>>
    /\ font_size = 0
    /\ image = NoImage

hw == << probes, probe_out, opened, height >>
counts == << cycle, samples, bitmaps, commits, sleeps >>
disp == << status, font_size, image >>

\* except KeyboardInterrupt (line 209)
MainCatches(e) == e = KeyboardInterrupt

\* an exception leaves main() uncaught: traceback, the process ends
Crash(e) ==
    /\ pc' = "crashed"
    /\ exc' = e
    /\ loc' = NoFrame
    /\ status' = <<>>
    /\ font_size' = 0
    /\ image' = NoImage

\* an exception reaches the try of main(), every frame below it unwound
RaiseInLoop(e) ==
    IF MainCatches(e)
    THEN /\ pc' = "handler"
         /\ exc' = exc
         /\ loc' = NoFrame
         /\ status' = <<>>
         /\ font_size' = 0
         /\ image' = NoImage
    ELSE Crash(e)

\* an exception is raised inside the try of get_battery_status
RaiseInBattery(e, seen) ==
    IF BatteryCatches(e)
    THEN /\ loc' = [loc EXCEPT !.battery = BatteryFallback, !.charge_level = NoValue,
                               !.battery_in = seen]
         /\ pc' = "memory"
         /\ UNCHANGED << exc, disp >>
    ELSE RaiseInLoop(e)

\* an exception is raised inside the try of get_cpu_temperature
RaiseInTemp(e) ==
    IF TempCatches(e)
    THEN /\ loc' = [loc EXCEPT !.cpu_temp = "N/A"]
         /\ pc' = "loadavg"
         /\ UNCHANGED << exc, disp >>
    ELSE RaiseInLoop(e)

\* an exception is raised inside the try of get_ssid
RaiseInSsid(e) ==
    IF SsidCatches(e)
    THEN /\ loc' = [loc EXCEPT !.ssid = "N/A"]
         /\ pc' = "tailscale"
         /\ UNCHANGED << exc, disp >>
    ELSE RaiseInLoop(e)

\* an exception is raised inside the try of is_papirus_connected: it
\* returns False, or the exception leaves main(), which has no try there
RaiseInProbe(e) ==
    IF ProbeCatches(e)
    THEN /\ pc' = "print_absent"
         /\ UNCHANGED << exc, loc, disp >>
    ELSE Crash(e)

\* main, line 198: is_papirus_connected()
Probe ==
    /\ pc = "probe"
    /\ probes' = probes + 1
    /\ \E o \in ProbeOutcomes :
         /\ probe_out' = o
         /\ IF o.kind = "raise" THEN RaiseInProbe(o.err)
            ELSE /\ pc' = IF ReportsPapirus(o) THEN "open" ELSE "print_absent"
                 /\ UNCHANGED << exc, loc, disp >>
    /\ UNCHANGED << interrupted, opened, height, printed, counts, prev_net >>

\* main, lines 199-200
PrintAbsent ==
    /\ pc = "print_absent"
    /\ printed' = Append(printed, "Papirus display not detected. Exiting.")
    /\ pc' = "exited"
    /\ UNCHANGED << exc, interrupted, hw, counts, loc, prev_net, disp >>

\* main, lines 202-203
Open ==
    /\ pc = "open"
    /\ opened' = opened + 1
    /\ height' \in PanelHeights
    /\ pc' = "loop_top"
    /\ UNCHANGED << exc, interrupted, probes, probe_out, printed, counts, loc, prev_net, disp >>

\* main, lines 206-207: the loop calls display_status
LoopTop ==
    /\ pc = "loop_top"
    /\ cycle < MaxCycles
    /\ cycle' = cycle + 1
    /\ pc' = "cpu_percent"
    /\ UNCHANGED << exc, interrupted, hw, printed, samples, bitmaps, commits, sleeps,
                    loc, prev_net, disp >>

rest == << interrupted, hw, printed, counts, prev_net >>

\* line 110
CpuPercent ==
    /\ pc = "cpu_percent"
    /\ \E c \in CpuLoads : loc' = [loc EXCEPT !.cpu_load = c]
    /\ pc' = "battery_charge"
    /\ UNCHANGED << exc, disp, rest >>

\* line 31
BatteryCharge ==
    /\ pc = "battery_charge"
    /\ \E r \in ChargeResponses :
         IF DataError(r) # "none" THEN RaiseInBattery(DataError(r), << r >>)
         ELSE /\ loc' = [loc EXCEPT !.charge_level = r.data, !.battery_in = << r >>]
              /\ pc' = "battery_status"
              /\ UNCHANGED << exc, disp >>
    /\ UNCHANGED rest

\* lines 34-44
BatteryStatus ==
    /\ pc = "battery_status"
    /\ \E r \in StatusResponses :
         IF DataError(r) # "none"
         THEN RaiseInBattery(DataError(r), Append(loc.battery_in, r))
         ELSE /\ loc' = [loc EXCEPT
                           !.battery = << loc.charge_level, InterpretPowerInput(r.data) >>,
                           !.charge_level = NoValue,
                           !.battery_in = Append(loc.battery_in, r)]
              /\ pc' = "memory"
              /\ UNCHANGED << exc, disp >>
    /\ UNCHANGED rest

\* lines 116-118
Memory ==
    /\ pc = "memory"
    /\ \E m \in MemorySamples :
         loc' = [loc EXCEPT !.memory = << ToMB1(m[1]), ToMB1(m[2]) >>]
    /\ pc' = "cpu_temp"
    /\ UNCHANGED << exc, disp, rest >>

\* line 121
CpuTemp ==
    /\ pc = "cpu_temp"
    /\ \E o \in TempOutcomes :
         IF TempError(o) # "none" THEN RaiseInTemp(TempError(o))
         ELSE /\ loc' = [loc EXCEPT !.cpu_temp = FormatTemp(o.millideg)]
              /\ pc' = "loadavg"
              /\ UNCHANGED << exc, disp >>
    /\ UNCHANGED rest

\* lines 124-125
LoadAvg ==
    /\ pc = "loadavg"
    /\ \E l \in LoadSamples :
         loc' = [loc EXCEPT !.load_avg_str =
                    Fixed2(l[1]) \o ", " \o Fixed2(l[2]) \o ", " \o Fixed2(l[3])]
    /\ pc' = "ip_call"
    /\ UNCHANGED << exc, disp, rest >>

\* line 64
IpCall ==
    /\ pc = "ip_call"
    /\ \E a \in NetConfigs : loc' = [loc EXCEPT !.addrs = a]
    /\ pc' = "ip_scan"
    /\ UNCHANGED << exc, disp, rest >>

\* lines 65-70, and the assignment of line 128
IpScan ==
    /\ pc = "ip_scan"
    /\ loc' = [loc EXCEPT !.ip_address = GetIpAddress(loc.addrs), !.addrs = <<>>]
    /\ pc' = "net"
    /\ UNCHANGED << exc, disp, rest >>

\* (counters reported as the difference to the previous report)
NetPerInterval ==
    /\ pc = "net"
    /\ \E n \in NetSamples :
         loc' = [loc EXCEPT !.net_io = n,
                            !.sent = ToMB2(IF n.bytes_sent >= prev_net.bytes_sent
                                           THEN n.bytes_sent - prev_net.bytes_sent
                                           ELSE n.bytes_sent),
                            !.recv = ToMB2(IF n.bytes_recv >= prev_net.bytes_recv
                                           THEN n.bytes_recv - prev_net.bytes_recv
                                           ELSE n.bytes_recv)]
    /\ pc' = "ssid"
    /\ UNCHANGED << exc, disp, rest >>

\* lines 131-133
Net ==
    /\ pc = "net"
    /\ \E n \in NetSamples :
         loc' = [loc EXCEPT !.net_io = n,
                            !.sent = ToMB2(n.bytes_sent),
                            !.recv = ToMB2(n.bytes_recv)]
    /\ pc' = "ssid"
    /\ UNCHANGED << exc, disp, rest >>

\* line 137
Ssid ==
    /\ pc = "ssid"
    /\ \E o \in SsidOutcomes :
         IF o.kind = "raise" THEN RaiseInSsid(o.err)
         ELSE /\ loc' = [loc EXCEPT !.ssid = SsidOf(o)]
              /\ pc' = "tailscale"
              /\ UNCHANGED << exc, disp >>
    /\ UNCHANGED rest

\* line 140
Tailscale ==
    /\ pc = "tailscale"
    /\ \E a \in NetConfigs : loc' = [loc EXCEPT !.tailscale_status = IsTailscaleUp(a)]
    /\ pc' = "build"
    /\ UNCHANGED << exc, disp, rest >>

\* lines 143-154 and 192-193: the report is returned to display_status,
\* which calls the renderer with the default font size
Build ==
    /\ pc = "build"
    /\ status' = StatusLines(loc)
    /\ samples' = samples + 1
    /\ prev_net' = [bytes_sent |-> loc.net_io.bytes_sent,
                    bytes_recv |-> loc.net_io.bytes_recv,
                    sent |-> loc.sent, recv |-> loc.recv]
    /\ loc' = NoFrame
    /\ font_size' = DefaultFontSize
    /\ pc' = "render"
    /\ UNCHANGED << exc, interrupted, hw, printed, cycle, bitmaps, commits, sleeps, image >>

\* lines 163-183
Render ==
    /\ pc = "render"
    /\ image' = RenderStatusToImage(status, height, font_size)
    /\ pc' = "display"
    /\ UNCHANGED << exc, loc, status, font_size, rest >>

\* line 194
Display ==
    /\ pc = "display"
    /\ bitmaps' = bitmaps + 1
    /\ pc' = "update"
    /\ UNCHANGED << exc, interrupted, hw, printed, cycle, samples, commits, sleeps,
                    loc, prev_net, disp >>

\* (display_status returning without the commit)
UpdateWithoutCommit ==
    /\ pc = "update"
    /\ status' = <<>>
    /\ font_size' = 0
    /\ image' = NoImage
    /\ pc' = "sleep"
    /\ UNCHANGED << exc, interrupted, hw, printed, counts, loc, prev_net >>

\* line 195, and display_status returns
Update ==
    /\ pc = "update"
    /\ commits' = commits + 1
    /\ status' = <<>>
    /\ font_size' = 0
    /\ image' = NoImage
    /\ pc' = "sleep"
    /\ UNCHANGED << exc, interrupted, hw, printed, cycle, samples, bitmaps, sleeps,
                    loc, prev_net >>

\* line 208
Sleep ==
    /\ pc = "sleep"
    /\ sleeps' = sleeps + 1
    /\ pc' = "loop_top"
    /\ UNCHANGED << exc, interrupted, hw, printed, cycle, samples, bitmaps, commits,
                    loc, prev_net, disp >>

\* the user's interrupt (SIGINT): KeyboardInterrupt is raised where the
\* thread is
Interrupt ==
    /\ pc \in StartupPcs \cup LoopPcs
    /\ ~interrupted
    /\ interrupted' = TRUE
    /\ IF pc = "probe" THEN RaiseInProbe(KeyboardInterrupt)
       ELSE IF pc \in StartupPcs THEN Crash(KeyboardInterrupt)
       ELSE IF pc \in BatteryPcs THEN RaiseInBattery(KeyboardInterrupt, loc.battery_in)
       ELSE IF pc = "cpu_temp" THEN RaiseInTemp(KeyboardInterrupt)
       ELSE IF pc = "ssid" THEN RaiseInSsid(KeyboardInterrupt)
       ELSE RaiseInLoop(KeyboardInterrupt)
    /\ UNCHANGED << hw, printed, counts, prev_net >>

\* line 210, and main returns
PrintExit ==
    /\ pc = "handler"
    /\ printed' = Append(printed, "Exiting...")
    /\ pc' = "done"
    /\ UNCHANGED << exc, interrupted, hw, counts, loc, prev_net, disp >>

Collect ==
    \/ CpuPercent \/ BatteryCharge \/ BatteryStatus \/ Memory \/ CpuTemp \/ LoadAvg
    \/ IpCall \/ IpScan \/ Net \/ Ssid \/ Tailscale \/ Build

Program ==
    \/ Probe \/ PrintAbsent \/ Open \/ LoopTop \/ Collect
    \/ Render \/ Display \/ Update \/ Sleep \/ PrintExit

Next == Program \/ Interrupt

Spec == Init /\ [][Next]_vars

\* the thread keeps running: a call that can complete does complete
FairSpec == Spec /\ WF_vars(Program)

(***************************************************************************)
(* The renderer called directly, on any report of at most MaxLines lines   *)
(* of at most MaxLen tokens each, with any of the font sizes below.        *)
(***************************************************************************)
SeqsUpTo(S, n) == UNION { [1..k -> S] : k \in 0..n }
Tokens == {"a", SEP, BLANK}
FontSizes == {8, 10}

RenderInit ==
    /\ pc = "render"
    /\ status \in SeqsUpTo(SeqsUpTo(Tokens, MaxLen), MaxLines)
    /\ font_size \in FontSizes
    /\ height \in PanelHeights
    /\ exc = "none"
    /\ interrupted = FALSE
    /\ probes = 0
    /\ probe_out = NoProbe
    /\ opened = 0
    /\ printed = <<>>
    /\ cycle = 0
    /\ samples = 0
    /\ bitmaps = 0
    /\ commits = 0
    /\ sleeps = 0
    /\ loc = NoFrame
    /\ prev_net = [bytes_sent |-> 0, bytes_recv |-> 0, sent |-> 0, recv |-> 0]
    /\ image = NoImage

RenderNext == Render

RenderSpec == RenderInit /\ [][RenderNext]_vars

(***************************************************************************)
(*                              Claims                                     *)
(***************************************************************************)
ExitMessage == "Exiting..."
AbsentMessage == "Papirus display not detected. Exiting."

\* the labels of the report, in display order
ReportLabels ==
    << << "CPU" >>, << "Memory" >>, << "CPU", BLANK, "Temp" >>, << "Load", BLANK, "Avg" >>,
       << "IP", BLANK, "Addr" >>, << "Net" >>, << "Wi-Fi" >>, << "Tailscale" >> >>

IsFullReport(st) ==
    /\ Len(st) = 8
    /\ \A i \in 1..8 : HasSep(st[i]) /\ SplitLabel(st[i]) = ReportLabels[i]

\* C1: every call of get_system_status returns a report of exactly 8 lines in
\* the fixed order, whatever the sub-queries answer: a step of the collector
\* that no interrupt cuts short stays in the collector or returns the full
\* report to the renderer.
C1_ReportAlwaysProduced ==
    [][ (pc \in CollectorPcs /\ ~interrupted')
          => /\ pc' \in CollectorPcs \cup {"render"}
             /\ (pc' = "render" => IsFullReport(status')) ]_vars

\* C2: once main has entered the loop, an interrupt is the only thing that
\* ends it: main is never over, after the display was opened, without an
\* interrupt having been raised.
C2_OnlyInterruptEndsLoop ==
    (opened = 1 /\ pc \in TerminalPcs) => interrupted

ProbeFoundPapirus == probe_out.kind = "output" /\ "48" \in probe_out.found
ProbeSaidAbsent ==
    \/ probe_out.kind = "output" /\ "48" \notin probe_out.found
    \/ probe_out.kind = "raise"
         /\ probe_out.err \in {"FileNotFoundError", "CalledProcessError"}

\* C3: the presence check runs exactly once, at startup, and gates
\* everything after it: unless i2cdetect reported address 48, the display is
\* never opened and nothing is sampled, rendered or pushed; when it answered
\* without the address, was missing or failed, main prints the message and
\* returns; no probe is made once the loop runs.
C3_PresenceGate ==
    /\ probes <= 1
    /\ (pc \in LoopPcs \cup {"open", "handler", "done"}) => probes = 1 /\ ProbeFoundPapirus
    /\ ~ProbeFoundPapirus =>
         opened = 0 /\ cycle = 0 /\ samples = 0 /\ bitmaps = 0 /\ commits = 0
    /\ ProbeSaidAbsent =>
         /\ pc \in {"print_absent", "exited"} \/ (pc = "crashed" /\ interrupted)
         /\ pc = "exited" => printed = << AbsentMessage >>

C3_Witness ==
    /\ pc = "exited"
    /\ probe_out.kind = "raise"
    /\ probe_out.err = "FileNotFoundError"
    /\ printed = << AbsentMessage >>
    /\ opened = 0

PhaseOf(p) ==
    IF p \in CollectorPcs \cup {"loop_top"} THEN "sampling"
    ELSE IF p = "render" THEN "rendering"
    ELSE IF p \in {"display", "update"} THEN "pushing"
    ELSE IF p = "sleep" THEN "sleeping"
    ELSE "outside"

NextPhase(ph) ==
    IF ph = "sampling" THEN "rendering"
    ELSE IF ph = "rendering" THEN "pushing"
    ELSE IF ph = "pushing" THEN "sleeping"
    ELSE "sampling"

CycleCounts ==
    /\ opened <= 1
    /\ pc \in LoopPcs => opened = 1
    /\ pc = "loop_top" =>
         samples = cycle /\ bitmaps = cycle /\ commits = cycle /\ sleeps = cycle
    /\ pc \in CollectorPcs =>
         /\ samples = cycle - 1 /\ bitmaps = cycle - 1
         /\ commits = cycle - 1 /\ sleeps = cycle - 1
    /\ pc = "render" =>
         /\ samples = cycle /\ bitmaps = cycle - 1
         /\ commits = cycle - 1 /\ sleeps = cycle - 1
         /\ Len(status) = 8 /\ image = NoImage
    /\ pc = "display" =>
         /\ samples = cycle /\ bitmaps = cycle - 1
         /\ commits = cycle - 1 /\ sleeps = cycle - 1
         /\ image.draws # <<>>
    /\ pc = "update" =>
         /\ samples = cycle /\ bitmaps = cycle
         /\ commits = cycle - 1 /\ sleeps = cycle - 1
    /\ pc = "sleep" =>
         /\ samples = cycle /\ bitmaps = cycle
         /\ commits = cycle /\ sleeps = cycle - 1

\* C4: every refresh cycle passes through sampling, rendering, pushing and
\* sleeping in that order and then starts the next cycle at sampling; the
\* report is collected before the bitmap is rendered, the bitmap is handed
\* over before the commit, one bitmap and one commit are issued per cycle,
\* the sleep comes after the commit, and one handle, opened before the
\* first cycle, serves every cycle.
C4_CycleOrder ==
    /\ []CycleCounts
    /\ [][ (pc \in LoopPcs /\ pc' \in LoopPcs /\ PhaseOf(pc') # PhaseOf(pc))
             => PhaseOf(pc') = NextPhase(PhaseOf(pc)) ]_vars
    /\ [][ opened = 1 => (opened' = opened /\ height' = height) ]_vars

C4_Witness ==
    /\ pc = "sleep"
    /\ cycle = 2
    /\ bitmaps = 2
    /\ commits = 2
    /\ sleeps = 1
    /\ opened = 1

NothingIssued ==
    /\ cycle' = cycle
    /\ samples' = samples
    /\ bitmaps' = bitmaps
    /\ commits' = commits
    /\ sleeps' = sleeps

\* C5: an interrupt arriving in any phase of the running loop leads to the
\* terminal state: it is caught by main whatever call it arrives in, the
\* exit message is printed exactly once, main then returns without an
\* error, and no sample, bitmap or commit is issued after the catch.
C5_InterruptEndsCleanly ==
    /\ [](interrupted /\ opened = 1 => pc \in {"handler", "done"})
    /\ [](pc = "handler" => printed = <<>>)
    /\ [](pc = "done" => interrupted /\ printed = << ExitMessage >> /\ exc = "none")
    /\ [][ (pc \in {"handler", "done"}) => NothingIssued ]_vars
    /\ [][ pc = "done" => pc' = "done" ]_vars
    /\ (interrupted /\ opened = 1) ~> (pc = "done")

C5_Witness ==
    /\ pc = "done"
    /\ interrupted
    /\ printed = << ExitMessage >>
    /\ cycle = 2
    /\ commits = 1
    /\ sleeps = 1

QueryFailed(r) == r.kind # "data"

\* C6: get_battery_status never lets an error of the battery subsystem out:
\* when either query fails the result is ("N/A", "Error"), also when the
\* first query had succeeded; when both succeed it is the charge level with
\* "Discharging" for NOT_PRESENT, "Charging" for PRESENT and "Unknown" for
\* anything else.
C6_BatteryResult ==
    /\ exc \notin {"KeyError", "OSError"}
    /\ pc = "battery_status" =>
         Len(loc.battery_in) = 1 /\ ~QueryFailed(loc.battery_in[1])
    /\ (pc \in CollectorPcs \ BatteryPcs /\ pc # "cpu_percent") =>
         LET got == loc.battery_in
         IN  IF \E k \in 1..Len(got) : QueryFailed(got[k])
             THEN loc.battery = << "N/A", "Error" >>
             ELSE /\ Len(got) = 2
                  /\ loc.battery[1] = got[1].data
                  /\ got[2].data = "NOT_PRESENT" => loc.battery[2] = "Discharging"
                  /\ got[2].data = "PRESENT" => loc.battery[2] = "Charging"
                  /\ got[2].data \notin {"NOT_PRESENT", "PRESENT"}
                       => loc.battery[2] = "Unknown"

C6_Witness ==
    /\ pc = "memory"
    /\ Len(loc.battery_in) = 2
    /\ ~QueryFailed(loc.battery_in[1])
    /\ loc.battery_in[2].kind = "nodata"
    /\ loc.battery = << "N/A", "Error" >>

DrawsOfLine(i) == SelectSeq(image.draws, LAMBDA d : d.line = i)

\* C7: in render_status_to_image the cursor starts at 0 and advances by
\* font_size + 2 after every line, so the i-th line (from 0) is drawn at
\* y = i * (font_size + 2), with or without a separator and whatever its
\* text; the drawing of every line starts at x = 5.
C7_LinePitch ==
    pc = "display" =>
      /\ \A k \in 1..Len(image.draws) :
           /\ image.draws[k].y = image.draws[k].line * (font_size + 2)
           /\ image.draws[k].x0 = 5
           /\ image.draws[k].line \in 0..(Len(status) - 1)
           /\ k > 1 => image.draws[k - 1].line <= image.draws[k].line
      /\ \A i \in 0..(Len(status) - 1) :
           LET ds == DrawsOfLine(i)
               line == status[i + 1]
           IN  /\ ds # <<>>
               /\ ds[1].right_of = <<>>
               /\ IF HasSep(line)
                  THEN /\ Len(ds) = 2
                       /\ ds[1].text = SplitLabel(line) \o << ":", " " >>
                       /\ ds[2].right_of = ds[1].text
                  ELSE /\ Len(ds) = 1
                       /\ ds[1].text = line

C7_Witness ==
    /\ pc = "display"
    /\ Len(status) = 2
    /\ ~HasSep(status[1])
    /\ HasSep(status[2])
    /\ font_size = 8
    /\ image.draws[Len(image.draws)].y = 10

WithinHalfHundredth(h, bytes) ==
    /\ 2 * (h * BytesPerMB - bytes * 100) <= BytesPerMB
    /\ 2 * (bytes * 100 - h * BytesPerMB) <= BytesPerMB

\* C9: across consecutive collection cycles, when the cumulative byte
\* counters do not decrease, the "Sent" and "Recv" values of the Net line
\* do not decrease either: each cycle shows the cumulative total in MB
\* rounded to two decimals, never a difference, and nothing of the previous
\* cycle affects it.
C9_NetCumulative ==
    /\ pc \in {"ssid", "tailscale", "build"} =>
         /\ WithinHalfHundredth(loc.sent, loc.net_io.bytes_sent)
         /\ WithinHalfHundredth(loc.recv, loc.net_io.bytes_recv)
         /\ loc.net_io.bytes_sent >= prev_net.bytes_sent => loc.sent >= prev_net.sent
         /\ loc.net_io.bytes_recv >= prev_net.bytes_recv => loc.recv >= prev_net.recv
    /\ pc = "render" =>
         status[6] = << "Net", ":", " ", "Sent", ":", " ", Repr2(prev_net.sent), " ",
                        "MB,", " ", "Recv", ":", " ", Repr2(prev_net.recv), " ", "MB" >>

C9_Witness ==
    /\ pc = "ssid"
    /\ cycle = 2
    /\ prev_net.bytes_sent = 131072
    /\ prev_net.sent = 12
    /\ loc.net_io.bytes_sent = 131072
    /\ loc.sent = 12
    /\ loc.net_io.bytes_recv > prev_net.bytes_recv
    /\ loc.recv > prev_net.recv

RECURSIVE AllAddrs(_)
AllAddrs(ifaces) ==
    IF ifaces = <<>> THEN <<>>
    ELSE Head(ifaces).addr_list \o AllAddrs(Tail(ifaces))

NonLoopbackIPv4(ifaces) ==
    SelectSeq(AllAddrs(ifaces),
              LAMBDA a : a.family = "AF_INET" /\ a.address \notin LoopbackAddresses)

====
